---- MODULE Spec2Model ----
(***************************************************************************)
(* Three instructional statistics scripts:                                 *)
(*   ISP_TimeSeries.py      the CO2 time-series pipeline                   *)
(*   ISP_checkNormality.py  four normality tests on a seeded sample        *)
(*   ISP_oneGroup.py        one-sample tests, CI and doubled tails         *)
(* Each script has its own specification (SpecTS, SpecNorm, SpecOne) over  *)
(* its own variables; the variables of the other scripts stay idle.        *)
(***************************************************************************)
EXTENDS Integers, Sequences, FiniteSets

VARIABLES
    \* ---- ISP_TimeSeries.py
    pc,             \* position of the script
    importOutcome,  \* what "from ISP_mystyle import ..." did
    style,          \* which setFonts/showData are bound
    files,          \* files written by this run
    rng,            \* state of numpy's global random generator
    data,           \* return value of get_CO2_data (the co2 column)
    decomposed,     \* return value of acf_and_pacf
    fitted,         \* order of each model fitted in the loop over orders
    fitInput,       \* the series handed to ARIMA in the loop
    x,              \* the hand-built AR(2) series
    y,              \* the ArmaProcess sample
    started,        \* the stages started in this run, in order
    raised,         \* the stage whose exception ended this run
    prev,           \* <<x, y, rng>> at the end of the previous complete run
    \* ---- ISP_checkNormality.py
    nrng,           \* state of numpy's global random generator
    pVals,          \* the pandas Series printed for all data
    pFewVals,       \* the pandas Series printed for the first points
    returns,        \* every value check_normality has returned
    shown,          \* number of plots the last call showed
    calls,          \* the <<generator state at entry, show_flag>> of the calls
    \* ---- ISP_oneGroup.py
    sample,         \* the observations
    checkVal,       \* the reference value
    out             \* what the functions computed

tsVars   == <<pc, importOutcome, style, files, rng, data, decomposed, fitted,
              fitInput, x, y, started, raised, prev>>
normVars == <<nrng, pVals, pFewVals, returns, shown, calls>>
oneVars  == <<sample, checkVal, out>>
vars     == <<tsVars, normVars, oneVars>>

(***************************************************************************)
(* Bounds of the model                                                     *)
(***************************************************************************)
RngMod   == 16   \* number of states of the modelled generator
XSteps   == 3    \* iterations of "for ii in range(200)"
NSample  == 3    \* length of generate_sample(250)
ExtraLen == 2    \* the co2 column has from 2*Period-1 to 2*Period+ExtraLen rows
NumData  == 5    \* size of the sample of check_normality (numData = 1000)
FewLen   == 3    \* length of fewData (data[:100])
MaxCalls == 2    \* distinct <<entry state, show_flag>> calls that are followed
MaxN     == 3    \* most observations in a sample of ISP_oneGroup.py
MaxVal   == 3    \* observations and reference values are 0 .. MaxVal

(***************************************************************************)
(* numpy's global random generator, as a small congruential generator:     *)
(* seed() fixes the state, every draw returns a value and advances it.     *)
(***************************************************************************)
Seed == 12345

RngStates == 0 .. (RngMod - 1)

seed(s) == s % RngMod

NextRng(s) == (5 * s + 1) % RngMod

\* one standard-normal draw, in whole units: -1, 0 or 1
randn(s) == (s % 3) - 1

RECURSIVE Advance(_, _)
Advance(s, n) == IF n = 0 THEN s ELSE Advance(NextRng(s), n - 1)

\* n draws from state s
RECURSIVE Draws(_, _)
Draws(s, n) == IF n = 0 THEN <<>> ELSE <<randn(s)>> \o Draws(NextRng(s), n - 1)

(***************************************************************************)
(* ISP_TimeSeries.py                                                       *)
(***************************************************************************)
StageOrder == <<"get_CO2_data", "acf_and_pacf", "fit_ARIMA_models">>

ImportOutcomes == {"ok", "ImportError", "SyntaxError"}

\* the except clause of the import: which outcomes it catches
Caught(outcome) == outcome = "ImportError"

\* a handler that swallows the exception and goes on with the next stage
OnExceptionContinue(stage) ==
    CASE stage = "get_CO2_data" -> "acf_and_pacf"
      [] stage = "acf_and_pacf" -> "fit_orders"
      [] OTHER -> "fit_x"

\* an exception leaving a stage: __main__ has no handler, the script ends
OnException(stage) == "terminated"

\* a fallback that saves the figure as the imported showData does
showDataSaving(st, fs, out_file) == {fs \cup {out_file}}

\* showData(out_file): the file sets that can result.  The fallback only
\* calls plt.show(); the imported one may save the figure.
showData(st, fs, out_file) ==
    IF st = "fallback" THEN {fs} ELSE {fs, fs \cup {out_file}}

Period == 12

\* the default of seasonal_decompose: no extrapolation
extrapolate_trend_none == "0"

extrapolate_trend == "freq"

\* statsmodels: 'freq' stands for period - 1 points, 0 for no extrapolation
Npoints(e) == IF e = "freq" THEN Period - 1 ELSE 0

\* Series are modelled by which of their entries hold a number (TRUE) and
\* which hold NaN (FALSE).
AllFinite(n) == [i \in 1 .. n |-> TRUE]

IsFinite(col) == \A i \in 1 .. Len(col) : col[i]

\* the last row of the table may be incomplete
GapAtEnd(n) == [i \in 1 .. n |-> i < n]

\* convolution_filter with the centred filter of an even period: period/2
\* points are lost at each edge
Convolved(col) ==
    LET n    == Len(col)
        half == Period \div 2
    IN  [i \in 1 .. n |-> i > half /\ i <= n - half]

\* _extrapolate_trend: the points before the first and after the last
\* number of the trend are filled from a line fitted to its npoints nearest
\* numbers
Trend(col, e) ==
    LET conv  == Convolved(col)
        nums  == {i \in 1 .. Len(col) : conv[i]}
        front == CHOOSE i \in nums : \A j \in nums : i <= j
        back  == CHOOSE i \in nums : \A j \in nums : i >= j
    IN  [i \in 1 .. Len(col) |->
            \/ conv[i]
            \/ Npoints(e) > 0 /\ (i < front \/ i > back)]

\* seasonal_decompose(col, model='additive', period=12, extrapolate_trend=e)
seasonal_decompose(col, e) ==
    LET trend    == Trend(col, e)
        seasonal == [i \in 1 .. Len(col) |-> TRUE]
    IN  [trend    |-> trend,
         seasonal |-> seasonal,
         resid    |-> [i \in 1 .. Len(col) |->
                          col[i] /\ trend[i] /\ seasonal[i]]]

NoDecomposition == [trend |-> <<>>, seasonal |-> <<>>, resid |-> <<>>]

orders == << <<1, 0, 1>>, <<0, 0, 2>> >>

\* the order given to ARIMA in iteration "order" of the loop
LoopOrder(order) == <<1, 0, 1>>

\* x = [0, 0]; 200 times x.append(x[-1] - 0.5*x[-2] + randn), in units of
\* 1/Scale so that the halving is exact
Scale == 2 ^ XSteps

RECURSIVE XLoop(_, _, _)
XLoop(xs, s, n) ==
    IF n = 0 THEN xs
    ELSE XLoop(Append(xs, xs[Len(xs)] - (xs[Len(xs) - 1] \div 2)
                              + Scale * randn(s)),
               NextRng(s), n - 1)

XSeries(s) == XLoop(<<0, 0>>, s, XSteps)

\* no seed before generate_sample: the draws go on from the current state
SeedARMAMissing == rng

\* the generator state from which generate_sample draws
SeedARMA == seed(Seed)

\* ArmaProcess([1, -.75, .25], [1, .65, .35]).generate_sample(n): the noise
\* filtered by ma/ar, in hundredths
RECURSIVE Lfilter(_, _, _)
Lfilter(eta, ys, n) ==
    IF n > Len(eta) THEN ys
    ELSE LET e0 == eta[n]
             e1 == IF n > 1 THEN eta[n - 1] ELSE 0
             e2 == IF n > 2 THEN eta[n - 2] ELSE 0
             y1 == IF n > 1 THEN ys[n - 1] ELSE 0
             y2 == IF n > 2 THEN ys[n - 2] ELSE 0
         IN  Lfilter(eta,
                     Append(ys, (75 * y1 - 25 * y2) \div 100
                                + 100 * e0 + 65 * e1 + 35 * e2),
                     n + 1)

generate_sample(s, n) == Lfilter(Draws(s, n), <<>>, 1)

DataLens == (2 * Period - 1) .. (2 * Period + ExtraLen)

Raise(stage) ==
    /\ raised' = stage
    /\ pc' = OnException(stage)

\* lines 26-36
ImportStyle ==
    /\ pc = "import"
    /\ \E o \in ImportOutcomes :
          /\ importOutcome' = o
          /\ IF o = "ok"
             THEN style' = "imported" /\ pc' = "get_CO2_data" /\ raised' = raised
             ELSE IF Caught(o)
             THEN style' = "fallback" /\ pc' = "get_CO2_data" /\ raised' = raised
             ELSE style' = style /\ raised' = "import" /\ pc' = "terminated"
    /\ UNCHANGED <<files, rng, data, decomposed, fitted, fitInput, x, y,
                   started, prev,
                   normVars, oneVars>>

\* lines 40-61, called at line 149
get_CO2_data ==
    /\ pc = "get_CO2_data"
    /\ started' = Append(started, "get_CO2_data")
    /\ \/ \* pd.read_csv raises (the fetch fails, the table is malformed)
          /\ Raise("get_CO2_data")
          /\ data' = data
       \/ \E n \in DataLens :
             /\ data' \in {AllFinite(n), GapAtEnd(n)}
             /\ pc' = "acf_and_pacf"
             /\ raised' = raised
    /\ UNCHANGED <<importOutcome, style, files, rng, decomposed, fitted,
                   fitInput, x, y, prev,
                   normVars, oneVars>>

\* lines 64-93, called at line 150
acf_and_pacf ==
    /\ pc = "acf_and_pacf"
    /\ started' = Append(started, "acf_and_pacf")
    /\ IF ~IsFinite(data) \/ Len(data) < 2 * Period
       THEN \* seasonal_decompose: no missing values, 2 complete cycles
            /\ Raise("acf_and_pacf")
            /\ UNCHANGED <<decomposed, files>>
       ELSE /\ decomposed' = seasonal_decompose(data, extrapolate_trend)
            /\ \E f1 \in showData(style, files, "TSA_decomposition.jpg") :
               \E f2 \in showData(style, f1, "TSA_acf.jpg") :
               \E f3 \in showData(style, f2, "TSA_pacf.jpg") :
                  files' = f3
            /\ pc' = "fit_orders"
            /\ raised' = raised
    /\ UNCHANGED <<importOutcome, style, rng, data, fitted, fitInput, x, y,
                   prev,
                   normVars, oneVars>>

\* lines 105-113: one iteration of "for order in orders"
FitOrder ==
    /\ pc = "fit_orders"
    /\ started' = IF fitted = <<>>
                  THEN Append(started, "fit_ARIMA_models") ELSE started
    /\ LET i == Len(fitted) + 1
       IN  /\ fitted' = Append(fitted, LoopOrder(orders[i]))
           /\ fitInput' = decomposed.resid
           /\ \/ \* model.fit() raises
                 Raise("fit_ARIMA_models")
              \/ /\ pc' = IF i = Len(orders) THEN "fit_x" ELSE "fit_orders"
                 /\ raised' = raised
    /\ UNCHANGED <<importOutcome, style, files, rng, data, decomposed, x, y,
                   prev,
                   normVars, oneVars>>

\* lines 115-131
FitX ==
    /\ pc = "fit_x"
    /\ x' = XSeries(rng)
    /\ rng' = Advance(rng, XSteps)
    /\ pc' = "fit_y"
    /\ UNCHANGED <<importOutcome, style, files, data, decomposed, fitted,
                   fitInput, y, started, raised, prev,
                   normVars, oneVars>>

\* lines 133-145
FitY ==
    /\ pc = "fit_y"
    /\ LET s == SeedARMA
       IN  /\ y' = generate_sample(s, NSample)
           /\ rng' = Advance(s, NSample)
    /\ pc' = "done"
    /\ UNCHANGED <<importOutcome, style, files, data, decomposed, fitted,
                   fitInput, x, started, raised, prev,
                   normVars, oneVars>>

\* the script is run again, in a new process: the generator starts anywhere
Rerun ==
    /\ pc \in {"done", "terminated"}
    /\ prev' = IF pc = "done" THEN <<x, y, rng>> ELSE prev
    /\ pc' = "import"
    /\ importOutcome' = "none"
    /\ style' = "none"
    /\ files' = {}
    /\ rng' \in RngStates
    /\ data' = <<>>
    /\ decomposed' = NoDecomposition
    /\ fitted' = <<>>
    /\ fitInput' = <<>>
    /\ x' = <<>>
    /\ y' = <<>>
    /\ started' = <<>>
    /\ raised' = "none"
    /\ UNCHANGED <<normVars, oneVars>>

IdleTS ==
    /\ pc = "idle"
    /\ importOutcome = "none"
    /\ style = "none"
    /\ files = {}
    /\ rng = 0
    /\ data = <<>>
    /\ decomposed = NoDecomposition
    /\ fitted = <<>>
    /\ fitInput = <<>>
    /\ x = <<>>
    /\ y = <<>>
    /\ started = <<>>
    /\ raised = "none"
    /\ prev = <<>>

IdleNorm ==
    /\ nrng = 0
    /\ pVals = <<>>
    /\ pFewVals = <<>>
    /\ returns = {}
    /\ shown = 0
    /\ calls = {}

IdleOne ==
    /\ sample = <<>>
    /\ checkVal = 0
    /\ out = [fn |-> "none"]

InitTS ==
    /\ pc = "import"
    /\ importOutcome = "none"
    /\ style = "none"
    /\ files = {}
    /\ rng \in RngStates
    /\ data = <<>>
    /\ decomposed = NoDecomposition
    /\ fitted = <<>>
    /\ fitInput = <<>>
    /\ x = <<>>
    /\ y = <<>>
    /\ started = <<>>
    /\ raised = "none"
    /\ prev = <<>>
    /\ IdleNorm
    /\ IdleOne

NextTS ==
    \/ ImportStyle
    \/ get_CO2_data
    \/ acf_and_pacf
    \/ FitOrder
    \/ FitX
    \/ FitY
    \/ Rerun

SpecTS == InitTS /\ [][NextTS]_vars

(***************************************************************************)
(* ISP_checkNormality.py                                                   *)
(***************************************************************************)
myMean == 0
mySD   == 3

RECURSIVE Sum(_)
Sum(sq) == IF sq = <<>> THEN 0 ELSE sq[1] + Sum(Tail(sq))

\* stats.norm.rvs(loc, scale, size=n) from generator state s
rvs(loc, scale, n, s) ==
    LET d == Draws(s, n) IN [i \in 1 .. n |-> loc + scale * d[i]]

\* pd.Series(scalar): one entry, under the integer label 0 (written "0")
Float64Class == [class |-> "numpy.float64"]

Series(scalar) == << [key |-> "0", val |-> scalar] >>

\* the table as check_normality creates it
NewTable == Series(Float64Class)

\* ser[k] = v: replaces the entry under k, or appends a new one
SetItem(ser, k, v) ==
    IF \E i \in 1 .. Len(ser) : ser[i].key = k
    THEN [i \in 1 .. Len(ser) |->
             IF ser[i].key = k THEN [key |-> k, val |-> v] ELSE ser[i]]
    ELSE Append(ser, [key |-> k, val |-> v])

GetItem(ser, k) == ser[CHOOSE i \in 1 .. Len(ser) : ser[i].key = k].val

\* (d - mean(d)) / std(d, ddof=1), kept exact: the numerators n*d[i] - sum(d)
\* and the sum of their squares, which fix every quotient
Standardise(d) ==
    LET n   == Len(d)
        num == [i \in 1 .. n |-> n * d[i] - Sum(d)]
    IN  [num |-> num, ss |-> Sum([i \in 1 .. n |-> num[i] * num[i]]),
         ddof |-> 1]

\* the p-value a library test returns: fixed by the test and its argument
PValue(test, arg) == [p |-> test, of |-> arg]

TestNames == {"Omnibus", "Shapiro-Wilk", "Lilliefors", "Kolmogorov-Smirnov"}

\* lines 51-70: the table of the four p-values of sample d
Table(d) ==
    LET t0 == NewTable
        t1 == SetItem(t0, "Omnibus", PValue("normaltest", d))
        t2 == SetItem(t1, "Shapiro-Wilk", PValue("shapiro", d))
        t3 == SetItem(t2, "Lilliefors", PValue("lilliefors", d))
    IN  SetItem(t3, "Kolmogorov-Smirnov", PValue("kstest", Standardise(d)))

\* no seed: the sample is drawn from the state at entry
SeedNormalityMissing == nrng

\* the generator state from which check_normality draws its sample
SeedNormality == seed(Seed)

\* lines 24-81
check_normality ==
    \E show_flag \in BOOLEAN :
       /\ Cardinality(calls \cup {<<nrng, show_flag>>}) <= MaxCalls
       /\ calls' = calls \cup {<<nrng, show_flag>>}
       /\ LET s       == SeedNormality
              d       == rvs(myMean, mySD, NumData, s)
              fewData == SubSeq(d, 1, FewLen)
          IN  /\ nrng' = Advance(s, NumData)
              /\ pVals' = Table(d)
              /\ pFewVals' = Table(fewData)
              /\ returns' = returns \cup {GetItem(Table(d), "Kolmogorov-Smirnov")}
       /\ shown' = IF show_flag THEN 2 ELSE 0
       /\ UNCHANGED <<tsVars, oneVars>>

\* code run between two calls draws from the same global generator
OtherDraw ==
    /\ nrng' = NextRng(nrng)
    /\ UNCHANGED <<pVals, pFewVals, returns, shown, calls, tsVars, oneVars>>

InitNorm ==
    /\ nrng \in RngStates
    /\ pVals = <<>>
    /\ pFewVals = <<>>
    /\ returns = {}
    /\ shown = 0
    /\ calls = {}
    /\ IdleTS
    /\ IdleOne

NextNorm ==
    \/ check_normality
    \/ OtherDraw

SpecNorm == InitNorm /\ [][NextNorm]_vars

(***************************************************************************)
(* ISP_oneGroup.py.  Observations are whole numbers; means, standard       *)
(* errors and t values are in thousandths, probabilities in 1/10000.       *)
(***************************************************************************)
RECURSIVE SqrtIter(_, _)
SqrtIter(n, r) ==
    LET r2 == (r + n \div r) \div 2
    IN  IF r2 >= r THEN r ELSE SqrtIter(n, r2)

\* np.sqrt, rounded down
Sqrt(n) == IF n = 0 THEN 0 ELSE SqrtIter(n, n)

\* np.mean(d)
Mean(d) == (1000 * Sum(d)) \div Len(d)

\* n * sum of squares - (sum)^2 = n * sum of squared deviations
Dev2(d) == Len(d) * Sum([i \in 1 .. Len(d) |-> d[i] * d[i]]) - Sum(d) * Sum(d)

\* np.std(d, ddof=1)
Std(d) == Sqrt((1000000 * Dev2(d)) \div (Len(d) * (Len(d) - 1)))

\* stats.sem(d)
Sem(d) == Sqrt((1000000 * Dev2(d)) \div (Len(d) * Len(d) * (Len(d) - 1)))

\* Student's t distribution with df degrees of freedom: <<t, cdf(t)>> at
\* t = 0, 1, 2 (3 for df = 1) and at the 95% and 97.5% points
TKnots(df) ==
    CASE df = 1 -> << <<0, 5000>>, <<1000, 7500>>, <<2000, 8524>>,
                      <<3000, 8976>>, <<6314, 9500>>, <<12706, 9750>> >>
      [] df = 2 -> << <<0, 5000>>, <<1000, 7887>>, <<2000, 9082>>,
                      <<2920, 9500>>, <<4303, 9750>> >>
      [] df = 3 -> << <<0, 5000>>, <<1000, 8045>>, <<2000, 9303>>,
                      <<2353, 9500>>, <<3182, 9750>> >>
      [] df = 4 -> << <<0, 5000>>, <<1000, 8130>>, <<2000, 9419>>,
                      <<2132, 9500>>, <<2776, 9750>> >>

\* the standard normal distribution: <<z, cdf(z)>>
NormKnots ==
    << <<0, 5000>>, <<1000, 8413>>, <<2000, 9772>>, <<3000, 9987>>,
       <<4000, 10000>> >>

\* cdf at t >= 0 from the knots: linear between two knots, the last value
\* beyond the last knot
RECURSIVE Interpolate(_, _, _)
Interpolate(knots, t, k) ==
    IF k = Len(knots) THEN knots[k][2]
    ELSE IF t < knots[k + 1][1]
    THEN knots[k][2] + ((knots[k + 1][2] - knots[k][2]) * (t - knots[k][1]))
                           \div (knots[k + 1][1] - knots[k][1])
    ELSE Interpolate(knots, t, k + 1)

\* cdf of a distribution symmetric about 0
Cdf(knots, t) ==
    IF t >= 0 THEN Interpolate(knots, t, 1)
    ELSE 10000 - Interpolate(knots, -t, 1)

\* sf = 1 - cdf
Sf(knots, t) == 10000 - Cdf(knots, t)

\* ppf at a tabulated probability q, or at 1 - q by symmetry
Ppf(knots, q) ==
    IF q >= 5000
    THEN knots[CHOOSE k \in 1 .. Len(knots) : knots[k][2] = q][1]
    ELSE -knots[CHOOSE k \in 1 .. Len(knots) : knots[k][2] = 10000 - q][1]

Abs(v) == IF v < 0 THEN -v ELSE v

\* stats.ttest_1samp(d, ref): <<t, two-sided p>>; nan for a constant sample
ttest_1samp(d, ref) ==
    IF Sem(d) = 0 THEN <<"nan", "nan">>
    ELSE LET t == ((Mean(d) - 1000 * ref) * 1000) \div Sem(d)
         IN  <<t, 2 * Sf(TKnots(Len(d) - 1), Abs(t))>>

\* tf.ppf(0.95): the one-sided 95% point
CIQuantileOneSided == 10000 - 500

\* the argument of tf.ppf in check_mean
CIQuantile == 9750

\* np.array([1,-1])
PlusMinusSwapped == <<1, -1>>

\* np.array([-1,1])
PlusMinus == <<-1, 1>>

\* lines 35-43: mean, standard deviation, confidence interval and the
\* probability that the t variable lies inside it
ConfidenceInterval(d) ==
    LET tq == Ppf(TKnots(Len(d) - 1), CIQuantile)
    IN  [i \in 1 .. 2 |-> Mean(d) + (Sem(d) * PlusMinus[i] * tq) \div 1000]

Coverage(d) ==
    LET kn == TKnots(Len(d) - 1)
        tq == Ppf(kn, CIQuantile)
    IN  Cdf(kn, PlusMinus[2] * tq) - Cdf(kn, PlusMinus[1] * tq)

\* lines 19-63 (the Wilcoxon test only chooses a printed word)
check_mean ==
    /\ out' = [fn       |-> "check_mean",
               mean     |-> Mean(sample),
               sd       |-> Std(sample),
               ci       |-> ConfidenceInterval(sample),
               coverage |-> Coverage(sample),
               prob     |-> ttest_1samp(sample, checkVal)[2]]
    /\ UNCHANGED <<sample, checkVal, tsVars, normVars>>

\* line 94: p_val = stats.t(dof).sf(t_val)*2
PVal(d, c) ==
    LET t_val == ((Mean(d) - 1000 * c) * 1000) \div Sem(d)
    IN  2 * Sf(TKnots(Len(d) - 1), t_val)

\* lines 66-102 (the power, from the noncentral t, is not tabulated); the
\* sample is drawn from a continuous distribution: it is not constant
explain_power ==
    /\ Dev2(sample) > 0
    /\ out' = [fn    |-> "explain_power",
               dof   |-> Len(sample) - 1,
               mean  |-> Mean(sample),
               t_val |-> ((Mean(sample) - 1000 * checkVal) * 1000)
                             \div Sem(sample),
               p_val |-> PVal(sample, checkVal),
               ci    |-> [i \in 1 .. 2 |->
                            Mean(sample)
                            + (Sem(sample)
                               * Ppf(TKnots(Len(sample) - 1),
                                     IF i = 1 THEN 250 ELSE 9750)) \div 1000]]
    /\ UNCHANGED <<sample, checkVal, tsVars, normVars>>

\* the upper tail doubled: stats.norm.sf(...)*2
NormProbUpperTail(d, ref) ==
    LET scale == Sem(d)
        z     == ((1000 * ref - Mean(d)) * 1000) \div scale
    IN  2 * Sf(NormKnots, z)

\* lines 125-126: stats.norm.cdf(checkVal, loc=mmean, scale=mstd/sqrt(n))*2
NormProb(d, ref) ==
    LET scale == Sem(d)
        z     == ((1000 * ref - Mean(d)) * 1000) \div scale
    IN  2 * Cdf(NormKnots, z)

\* lines 105-132; the sample is drawn from a continuous distribution
compareWithNormal ==
    /\ Dev2(sample) > 0
    /\ out' = [fn       |-> "compareWithNormal",
               mean     |-> Mean(sample),
               tProb    |-> ttest_1samp(sample, checkVal)[2],
               normProb |-> NormProb(sample, checkVal)]
    /\ UNCHANGED <<sample, checkVal, tsVars, normVars>>

Samples == UNION {[1 .. n -> 0 .. MaxVal] : n \in 2 .. MaxN}

InitOne ==
    /\ sample \in Samples
    /\ checkVal \in 0 .. MaxVal
    /\ out = [fn |-> "none"]
    /\ IdleTS
    /\ IdleNorm

NextOne ==
    \/ check_mean
    \/ explain_power
    \/ compareWithNormal

SpecOne == InitOne /\ [][NextOne]_vars

(***************************************************************************)
(* Properties                                                              *)
(***************************************************************************)
IsPrefix(a, b) == Len(a) <= Len(b) /\ SubSeq(b, 1, Len(a)) = a

Ran(stage) == \E i \in 1 .. Len(started) : started[i] = stage

\* C1: every iteration of the loop over orders fits the model of the order
\* it iterates on, so the orders fitted are the orders listed.
C1_EveryListedOrderFitted ==
    /\ \A i \in 1 .. Len(fitted) : fitted[i] = orders[i]
    /\ pc \in {"fit_x", "fit_y", "done"}
          => {fitted[i] : i \in 1 .. Len(fitted)}
                 = {orders[i] : i \in 1 .. Len(orders)}

\* C2: the confidence interval of check_mean brackets the sample mean:
\* ci[0] <= mean <= ci[1], for every sample of two or more observations.
C2_IntervalBracketsMean ==
    out.fn = "check_mean"
        => /\ Len(sample) >= 2
           /\ out.ci[1] <= out.mean
           /\ out.mean <= out.ci[2]

C2_Witness ==
    /\ out.fn = "check_mean"
    /\ out.ci[1] < out.mean
    /\ out.mean < out.ci[2]

\* C3 as stated: the interval mean +/- sem * t.ppf(q) of check_mean has
\* coverage 97.5%.
C3_CoverageIs975 ==
    out.fn = "check_mean" => out.coverage = 9750

\* C3 amended: the interval of check_mean has coverage 95%, which is 2q - 1
\* for the quantile q = 0.975 given to ppf.
C3_CoverageIs95 ==
    out.fn = "check_mean"
        => out.coverage = 9500

C3_Witness ==
    /\ out.fn = "check_mean"
    /\ Dev2(sample) > 0
    /\ out.coverage = 9500

IsPValueTable(t) ==
    /\ Len(t) = 4
    /\ {t[i].key : i \in 1 .. Len(t)} = TestNames
    /\ \A i \in 1 .. Len(t) : "p" \in DOMAIN t[i].val

\* C4: each table check_normality prints holds exactly four entries, each
\* keyed by a test name and holding a p-value, and nothing else.
C4_TablesHoldFourPValues ==
    /\ pVals # <<>> => IsPValueTable(pVals)
    /\ pFewVals # <<>> => IsPValueTable(pFewVals)

\* C5: the stages start in the order get_CO2_data, acf_and_pacf,
\* fit_ARIMA_models, each on what the stage before returned; an exception
\* of a stage ends the script, with that stage the last one started.
C5_StagesInOrderNoRecovery ==
    /\ IsPrefix(started, StageOrder)
    /\ Ran("acf_and_pacf") /\ raised # "acf_and_pacf"
          => decomposed.resid # <<>> /\ Len(decomposed.resid) = Len(data)
    /\ fitted # <<>> => fitInput = decomposed.resid /\ fitInput # <<>>
    /\ raised \notin {"none", "import"}
          => /\ pc = "terminated"
             /\ started # <<>>
             /\ started[Len(started)] = raised
    /\ pc = "terminated" <=> raised # "none"

C5_Witness ==
    /\ raised = "get_CO2_data"
    /\ pc = "terminated"
    /\ started = <<"get_CO2_data">>

\* C6: the residual of the decomposition has one number for every index of
\* the input, and that series is the one the ARIMA models are fitted to.
C6_ResidualCoversInput ==
    /\ decomposed # NoDecomposition
          => /\ Len(decomposed.resid) = Len(data)
             /\ IsFinite(decomposed.resid)
    /\ fitted # <<>>
          => /\ fitInput = decomposed.resid
             /\ Len(fitInput) = Len(data)
             /\ IsFinite(fitInput)

C6_Witness ==
    /\ fitted # <<>>
    /\ Len(data) > 2 * Period
    /\ Len(fitInput) = Len(data)

\* C7: every call of check_normality returns the same value, whatever the
\* generator state at entry and whatever show_flag.
C7_SameReturnValue == Cardinality(returns) <= 1

C7_Witness ==
    /\ Cardinality(returns) = 1
    /\ \E c1 \in calls : \E c2 \in calls : c1[1] # c2[1] /\ c1[2] # c2[2]

\* C8: an ImportError of ISP_mystyle is caught and the script goes on with
\* the fallback, under which no file is written; any other failure of the
\* import ends the script.
C8_FallbackWritesNoFile ==
    /\ importOutcome = "ImportError" => style = "fallback" /\ raised # "import"
    /\ style = "fallback" => files = {}
    /\ importOutcome \notin {"none", "ok", "ImportError"}
          => pc = "terminated" /\ raised = "import" /\ started = <<>>

C8_Witness ==
    /\ style = "fallback"
    /\ Ran("acf_and_pacf")
    /\ raised = "none"
    /\ files = {}

\* C9: of two complete runs of fit_ARIMA_models, the ArmaProcess samples y
\* are equal and so are the generator states left behind (x, drawn before
\* the seed, may differ).
C9_SampleAfterSeedRepeats ==
    pc = "done" /\ prev # <<>> => y = prev[2] /\ rng = prev[3]

C9_Witness ==
    /\ pc = "done"
    /\ prev # <<>>
    /\ x # prev[1]
    /\ y = prev[2]

\* C10: twice the lower tail of compareWithNormal is at most 1 exactly when
\* checkVal <= mean, twice the upper tail of explain_power exactly when
\* t_val >= 0, that is mean >= c; below the reference both exceed 1.
C10_DoubledTailOneSided ==
    /\ out.fn = "compareWithNormal"
          => (out.normProb <= 10000 <=> checkVal * Len(sample) <= Sum(sample))
    /\ out.fn = "explain_power"
          => /\ out.p_val <= 10000 <=> out.t_val >= 0
             /\ out.t_val >= 0 <=> Sum(sample) >= checkVal * Len(sample)

C10_Witness ==
    /\ out.fn = "compareWithNormal"
    /\ Sum(sample) < checkVal * Len(sample)
    /\ out.normProb > 10000

====
